---- MODULE Spec2Model ----
(***************************************************************************)
(* MMRP dissector (epan/dissectors/packet-mrp-mmrp.c).                     *)
(*                                                                         *)
(* dissect_mmrp and dissect_mmrp_three_packed_event as a state machine     *)
(* over one immutable buffer tvb.  Every access to the buffer and every    *)
(* item added to the protocol tree is appended to log, so that offsets,    *)
(* order and counts can be stated over reachable states.                   *)
(***************************************************************************)
EXTENDS Integers, Sequences, FiniteSets, TLC

VARIABLES
    tvb,              \* the captured bytes (tvbuff_t), never modified
    tree,             \* whether the caller passed a protocol tree
    input,            \* how tvb was built (construction parameters)
    pc,               \* position in dissect_mmrp / the event loop
    attribute_type,   \* guint8
    attribute_length, \* guint8
    number_of_values, \* guint16
    offset,           \* guint offset of dissect_mmrp (event cursor)
    vect_attr_len,    \* int
    msg_offset,       \* int
    vect_offset,      \* int
    counter,          \* guint counter of dissect_mmrp_three_packed_event
    tpe_offset,       \* parameter offset of dissect_mmrp_three_packed_event
    tpe_start,        \* the value tpe_offset had at the call
    caller,           \* who called dissect_mmrp_three_packed_event
    result,           \* return value, or "Truncated"
    log               \* buffer reads and tree items, in program order

vars == <<tvb, tree, input, pc, attribute_type, attribute_length,
          number_of_values, offset, vect_attr_len, msg_offset, vect_offset,
          counter, tpe_offset, tpe_start, caller, result, log>>

-----------------------------------------------------------------------------
(* Bounds of the model *)

\* longest well-formed frame that is built
MaxLen == 16
\* largest NumberOfValues put in a built VectorHeader
MaxN == 4
\* longest buffer of arbitrary bytes
MaxArb == 7
\* largest count handed to a direct call of the event expander
MaxTpeN == 7

-----------------------------------------------------------------------------
(* Program constants *)

MMRP_END_MARK == 0
MMRP_PROTOCOL_VERSION_OFFSET == 0
MMRP_MESSAGE_GROUP_OFFSET == MMRP_PROTOCOL_VERSION_OFFSET + 1
MMRP_ATTRIBUTE_TYPE_OFFSET == MMRP_MESSAGE_GROUP_OFFSET
MMRP_ATTRIBUTE_LENGTH_OFFSET == MMRP_ATTRIBUTE_TYPE_OFFSET + 1
MMRP_ATTRIBUTE_LIST_GROUP_OFFSET == MMRP_ATTRIBUTE_LENGTH_OFFSET + 1
MMRP_VECTOR_ATTRIBUTE_GROUP_OFFSET == MMRP_ATTRIBUTE_LIST_GROUP_OFFSET
MMRP_VECTOR_HEADER_OFFSET == MMRP_VECTOR_ATTRIBUTE_GROUP_OFFSET
MMRP_NUMBER_OF_VALUES_OFFSET == MMRP_VECTOR_HEADER_OFFSET
MMRP_NUMBER_OF_VALUES_MASK == 8191
MMRP_LEAVE_ALL_EVENT_MASK == 57344
MMRP_FIRST_VALUE_GROUP_OFFSET == MMRP_VECTOR_HEADER_OFFSET + 2
MMRP_SERVICE_THREE_PACKED_OFFSET == MMRP_FIRST_VALUE_GROUP_OFFSET + 1
MMRP_MAC_THREE_PACKED_OFFSET == MMRP_FIRST_VALUE_GROUP_OFFSET + 6
MMRP_ATTRIBUTE_TYPE_SERVICE == 1
MMRP_ATTRIBUTE_TYPE_MAC == 2

\* the values three_packed_vals names: New, JoinIn, In, JoinMt, Mt, Lv
three_packed_vals == 0 .. 5

-----------------------------------------------------------------------------
(* The buffer *)

tvb_captured_length == Len(tvb)

\* the bytes off .. off+n-1 exist
tvb_bytes_exist(off, n) == off >= 0 /\ off + n <= tvb_captured_length

tvb_get_guint8(off) == tvb[off + 1]

\* big-endian 16-bit read
tvb_get_ntohs(off) == tvb[off + 1] * 256 + tvb[off + 2]

\* x & mask, for a mask of the form 2^k - 1
BitAndLow(x, mask) == x % (mask + 1)

\* (x & mask) >> shift, for the mask of the bits above lowmask
BitsAbove(x, lowmask) == x \div (lowmask + 1)

-----------------------------------------------------------------------------
\* Log entries.  k is "get" (a tvb_get_guint8 or tvb_get_ntohs call), "val"
\* (an item whose value is fetched from the buffer), "none" (a container
\* item, no data fetched), "uint" (an item whose value the caller supplies)
\* or "throw" (the access that ran past the end of the buffer).

Op(k, hf, off, len, v) == [k |-> k, hf |-> hf, off |-> off, len |-> len, v |-> v]

\* value of a fetched field of 1 or 2 bytes (0 for wider fields)
Fetched(off, len) ==
    IF len = 1 THEN tvb_get_guint8(off)
    ELSE IF len = 2 THEN tvb_get_ntohs(off)
    ELSE 0

\* perform ops in order; the first fetch past the end of the buffer throws
RECURSIVE Run(_, _)
Run(ops, lg) ==
    IF ops = <<>> THEN [log |-> lg, ok |-> TRUE]
    ELSE LET o == Head(ops) IN
         IF o.k \in {"get", "val"}
         THEN IF tvb_bytes_exist(o.off, o.len)
              THEN Run(Tail(ops), Append(lg, [o EXCEPT !.v = Fetched(o.off, o.len)]))
              ELSE [log |-> Append(lg, [o EXCEPT !.k = "throw"]), ok |-> FALSE]
         ELSE Run(Tail(ops), Append(lg, o))

-----------------------------------------------------------------------------
(* Pure computations of the dissector *)

\* the digits with the first subtraction left out (e1 taken from the whole byte)
three_packed_event_no_sub(value) ==
    LET e0 == value \div 36
        e1 == value \div 6
        v2 == (value - 6 * e1) % 256
    IN  <<e0, e1, v2>>

\* the three base-6 digits of one packed byte, in guint8 arithmetic
three_packed_event(value) ==
    LET e0 == value \div 36
        v1 == (value - 36 * e0) % 256
        e1 == v1 \div 6
        v2 == (v1 - 6 * e1) % 256
    IN  <<e0, e1, v2>>

\* the count taken from the low 12 bits only
NumberOfValuesMask12(h) == BitAndLow(h, 4095)

\* number_of_values = header & MMRP_NUMBER_OF_VALUES_MASK
NumberOfValues(h) == BitAndLow(h, MMRP_NUMBER_OF_VALUES_MASK)

\* the Leave All Event bits of the header (bitmask item)
LeaveAllEvent(h) == BitsAbove(h, MMRP_NUMBER_OF_VALUES_MASK)

\* the packed bytes rounded down instead of up
VectAttrLenFloor(al, nv) == 2 + al + nv \div 3

\* the 2 bytes of the VectorHeader left out
VectAttrLenNoHeader(al, nv) == al + (nv + 2) \div 3

\* the length kept in 8 bits
VectAttrLenU8(al, nv) == (2 + al + (nv + 2) \div 3) % 256

\* vect_attr_len = 2 + attribute_length + (number_of_values + 2)/3
VectAttrLen(al, nv) == 2 + al + (nv + 2) \div 3

\* offset of the first packed byte relative to msg_offset + vect_offset
ThreePackedOffset(type) ==
    IF type = MMRP_ATTRIBUTE_TYPE_MAC THEN MMRP_MAC_THREE_PACKED_OFFSET
    ELSE MMRP_SERVICE_THREE_PACKED_OFFSET

\* the 2 bytes of the End Mark left out
NextMsgOffsetNoEndMark(mo, vo) == mo + vo + 2

\* msg_offset assigned instead of increased
NextMsgOffsetAssigned(mo, vo) == vo + 2 + 2

\* one byte too many added
NextMsgOffsetOneMore(mo, vo) == mo + vo + 2 + 2 + 1

\* msg_offset += vect_offset + 2 + 2
NextMsgOffset(mo, vo) == mo + vo + 2 + 2

\* position of the VectorAttribute EndMark item
ListEndMarkOffset == offset

\* position of the Message EndMark item
FrameEndMarkOffset == offset + 2

-----------------------------------------------------------------------------
(* Inputs: frames built from the wire grammar, their proper prefixes, and  *)
(* short buffers of arbitrary bytes.                                       *)

\* ceil(n/3), by its definition
Ceil3(n) == CHOOSE k \in 0 .. n : 3 * k >= n /\ (k = 0 \/ 3 * (k - 1) < n)

\* (AttributeType, AttributeLength) of the Messages that are built
MsgKinds == {<<1, 1>>, <<2, 6>>, <<3, 2>>, <<2, 1>>, <<1, 2>>}

\* (LeaveAllEvent, NumberOfValues) of the VectorAttributes that are built;
\* a VectorHeader is never 0x0000
VAKinds == {<<1, 0>>, <<7, MaxN>>} \cup {<<0, n>> : n \in 1 .. MaxN}

\* filler bytes of a FirstValue and of the packed events
\* 0xAA
FirstValueByte == 10 * 16 + 10
\* the digits 1, 0, 5
PackedByte == 1 * 36 + 0 * 6 + 5

\* wire length of a VectorAttribute
VALen(al, va) == 2 + al + Ceil3(va[2])

Fill(n, b) == [i \in 1 .. n |-> b]

BuildVA(al, va) ==
    LET h == va[1] * 8192 + va[2]
    IN  <<h \div 256, h % 256>> \o Fill(al, FirstValueByte) \o Fill(Ceil3(va[2]), PackedByte)

RECURSIVE BuildVAs(_, _)
BuildVAs(al, vas) ==
    IF vas = <<>> THEN <<>> ELSE BuildVA(al, Head(vas)) \o BuildVAs(al, Tail(vas))

BuildMsg(m) == <<m.type, m.len>> \o BuildVAs(m.len, m.vas) \o <<0, 0>>

RECURSIVE BuildMsgs(_)
BuildMsgs(ms) == IF ms = <<>> THEN <<>> ELSE BuildMsg(Head(ms)) \o BuildMsgs(Tail(ms))

\* ProtocolVersion, Message*, EndMark
BuildFrame(ms) == <<0>> \o BuildMsgs(ms) \o <<0, 0>>

\* the VectorAttribute lists of a Message that fit in b bytes
RECURSIVE VASeqs(_, _)
VASeqs(al, b) ==
    {<<>>} \cup UNION { { <<va>> \o r : r \in VASeqs(al, b - VALen(al, va)) }
                        : va \in {v \in VAKinds : VALen(al, v) <= b} }

\* the Message lists that fit in b bytes
RECURSIVE MsgSeqs(_)
MsgSeqs(b) ==
    {<<>>} \cup UNION { UNION { { <<[type |-> k[1], len |-> k[2], vas |-> vs]>> \o r
                                  : r \in MsgSeqs(b - Len(BuildMsg([type |-> k[1], len |-> k[2], vas |-> vs]))) }
                                : vs \in VASeqs(k[2], b - 4) }
                        : k \in {x \in MsgKinds : b >= 4} }

\* construction parameters of every well-formed frame of at most MaxLen bytes
FrameDescs == MsgSeqs(MaxLen - 3)

ArbBytes == {0, 1, 2}

RECURSIVE SeqsUpTo(_, _)
SeqsUpTo(S, n) ==
    IF n = 0 THEN {<<>>}
    ELSE LET R == SeqsUpTo(S, n - 1) IN R \cup { Append(r, b) : r \in {q \in R : Len(q) = n - 1}, b \in S }

\* buffers handed to a direct call of the event expander: every byte value
\* occurs as the first packed byte
TpeBufs == { SubSeq(<<v, PackedByte, 255>>, 1, n) : v \in 0 .. 255, n \in 0 .. 3 }

-----------------------------------------------------------------------------
(* Initial states *)

InitLocals ==
    /\ attribute_type = 0
    /\ attribute_length = 0
    /\ number_of_values = 0
    /\ offset = 0
    /\ vect_attr_len = 0
    /\ msg_offset = 0
    /\ vect_offset = 0
    /\ counter = 0
    /\ tpe_offset = 0
    /\ tpe_start = 0
    /\ result = "none"
    /\ log = <<>>

InitInput ==
    \/ \E d \in FrameDescs :
          /\ tvb = BuildFrame(d)
          /\ input = [kind |-> "wellformed", msgs |-> d]
    \/ \E d \in FrameDescs : \E n \in 1 .. Len(BuildFrame(d)) - 1 :
          /\ tvb = SubSeq(BuildFrame(d), 1, n)
          /\ input = [kind |-> "truncated", msgs |-> <<>>]
    \/ /\ tvb \in SeqsUpTo(ArbBytes, MaxArb)
       /\ input = [kind |-> "arbitrary", msgs |-> <<>>]
    \/ \E d \in FrameDescs : \E n \in 1 .. MaxLen - Len(BuildFrame(d)) :
          /\ tvb = BuildFrame(d) \o Fill(n, PackedByte)
          /\ input = [kind |-> "trailing", msgs |-> d]

\* a call of dissect_mmrp
Init ==
    /\ InitInput
    /\ tree \in BOOLEAN
    /\ pc = "enter"
    /\ caller = "dissect_mmrp"
    /\ InitLocals

-----------------------------------------------------------------------------
(* dissect_mmrp *)

Throw(lg) ==
    /\ pc' = "error"
    /\ result' = "Truncated"
    /\ log' = lg

\* lines 216-239: columns, the tree test, the protocol item and the version
Enter ==
    /\ pc = "enter"
    /\ IF ~tree
       THEN /\ pc' = "return"
            /\ UNCHANGED <<msg_offset, result, log>>
       ELSE LET r == Run(<<Op("none", "proto_mmrp", 0, -1, 0),
                           Op("val", "proto_id", MMRP_PROTOCOL_VERSION_OFFSET, 1, 0)>>, log)
            IN  IF r.ok
                THEN /\ msg_offset' = 0
                     /\ pc' = "msg_loop"
                     /\ log' = r.log
                     /\ UNCHANGED result
                ELSE /\ Throw(r.log)
                     /\ UNCHANGED msg_offset
    /\ UNCHANGED <<tvb, tree, input, attribute_type, attribute_length, number_of_values,
                   offset, vect_attr_len, vect_offset, counter, tpe_offset, tpe_start, caller>>

\* the Message loop ended on an AttributeType of 0 alone
MsgLoopTestTypeOnly ==
    /\ pc = "msg_loop"
    /\ LET at == MMRP_ATTRIBUTE_TYPE_OFFSET + msg_offset
           r == Run(<<Op("get", "msg_peek", at, 2, 0)>>, log)
       IN  IF r.ok
           THEN /\ pc' = IF tvb_get_guint8(at) # MMRP_END_MARK THEN "msg_body" ELSE "frame_end"
                /\ log' = r.log
                /\ UNCHANGED result
           ELSE Throw(r.log)
    /\ UNCHANGED <<tvb, tree, input, attribute_type, attribute_length, number_of_values,
                   offset, vect_attr_len, msg_offset, vect_offset, counter, tpe_offset,
                   tpe_start, caller>>

\* line 240: the test of the Message loop
MsgLoopTest ==
    /\ pc = "msg_loop"
    /\ LET at == MMRP_ATTRIBUTE_TYPE_OFFSET + msg_offset
           r == Run(<<Op("get", "msg_peek", at, 2, 0)>>, log)
       IN  IF r.ok
           THEN /\ pc' = IF tvb_get_ntohs(at) # MMRP_END_MARK THEN "msg_body" ELSE "frame_end"
                /\ log' = r.log
                /\ UNCHANGED result
           ELSE Throw(r.log)
    /\ UNCHANGED <<tvb, tree, input, attribute_type, attribute_length, number_of_values,
                   offset, vect_attr_len, msg_offset, vect_offset, counter, tpe_offset,
                   tpe_start, caller>>

\* lines 242-279: the Message header, dissect_mmrp_common1, the list item
MsgBody ==
    /\ pc = "msg_body"
    /\ LET ty == MMRP_ATTRIBUTE_TYPE_OFFSET + msg_offset
           ln == MMRP_ATTRIBUTE_LENGTH_OFFSET + msg_offset
           r == Run(<<Op("get", "attribute_type", ty, 1, 0),
                      Op("get", "attribute_length", ln, 1, 0),
                      Op("none", "message", MMRP_MESSAGE_GROUP_OFFSET + msg_offset, -1, 0),
                      Op("val", "attribute_type", ty, 1, 0),
                      Op("val", "attribute_length", ln, 1, 0),
                      Op("none", "attribute_list",
                         MMRP_ATTRIBUTE_LIST_GROUP_OFFSET + msg_offset, -1, 0)>>, log)
       IN  IF r.ok
           THEN /\ attribute_type' = tvb_get_guint8(ty)
                /\ attribute_length' = tvb_get_guint8(ln)
                /\ vect_offset' = 0
                /\ pc' = "vect_loop"
                /\ log' = r.log
                /\ UNCHANGED result
           ELSE /\ Throw(r.log)
                /\ UNCHANGED <<attribute_type, attribute_length, vect_offset>>
    /\ UNCHANGED <<tvb, tree, input, number_of_values, offset, vect_attr_len, msg_offset,
                   counter, tpe_offset, tpe_start, caller>>

\* the loop entered without comparing the 2 bytes with the End Mark
VectLoopTestNoCompare ==
    /\ pc = "vect_loop"
    /\ LET at == MMRP_VECTOR_HEADER_OFFSET + msg_offset + vect_offset
           r == Run(<<Op("get", "vect_peek", at, 2, 0)>>, log)
       IN  IF r.ok
           THEN /\ pc' = "vect_body"
                /\ log' = r.log
                /\ UNCHANGED result
           ELSE Throw(r.log)
    /\ UNCHANGED <<tvb, tree, input, attribute_type, attribute_length, number_of_values,
                   offset, vect_attr_len, msg_offset, vect_offset, counter, tpe_offset,
                   tpe_start, caller>>

\* line 280: the test of the VectorAttribute loop
VectLoopTest ==
    /\ pc = "vect_loop"
    /\ LET at == MMRP_VECTOR_HEADER_OFFSET + msg_offset + vect_offset
           r == Run(<<Op("get", "vect_peek", at, 2, 0)>>, log)
       IN  IF r.ok
           THEN /\ pc' = IF tvb_get_ntohs(at) # MMRP_END_MARK THEN "vect_body" ELSE "list_end"
                /\ log' = r.log
                /\ UNCHANGED result
           ELSE Throw(r.log)
    /\ UNCHANGED <<tvb, tree, input, attribute_type, attribute_length, number_of_values,
                   offset, vect_attr_len, msg_offset, vect_offset, counter, tpe_offset,
                   tpe_start, caller>>

\* a FirstValue item added for every AttributeType
FirstValueOpsAnyType(type, at) ==
    IF type = MMRP_ATTRIBUTE_TYPE_MAC
    THEN <<Op("none", "first_value", at, attribute_length, 0), Op("val", "mac", at, 6, 0)>>
    ELSE IF type = MMRP_ATTRIBUTE_TYPE_SERVICE
    THEN <<Op("none", "first_value", at, attribute_length, 0), Op("val", "ser_req", at, 1, 0)>>
    ELSE <<Op("none", "first_value", at, attribute_length, 0)>>

\* lines 302-312 and 318-327: the FirstValue items of a MAC or Service Message
FirstValueOps(type, at) ==
    IF type = MMRP_ATTRIBUTE_TYPE_MAC
    THEN <<Op("none", "first_value", at, attribute_length, 0), Op("val", "mac", at, 6, 0)>>
    ELSE IF type = MMRP_ATTRIBUTE_TYPE_SERVICE
    THEN <<Op("none", "first_value", at, attribute_length, 0), Op("val", "ser_req", at, 1, 0)>>
    ELSE <<>>

\* lines 289-332: one VectorAttribute up to the call of the event expander
VectBody ==
    /\ pc = "vect_body"
    /\ LET vo == msg_offset + vect_offset
           h == tvb_get_ntohs(MMRP_NUMBER_OF_VALUES_OFFSET + vo)
           nv == NumberOfValues(h)
           vl == VectAttrLen(attribute_length, nv)
           known == attribute_type \in {MMRP_ATTRIBUTE_TYPE_MAC, MMRP_ATTRIBUTE_TYPE_SERVICE}
           r == Run(<<Op("get", "number_of_values", MMRP_NUMBER_OF_VALUES_OFFSET + vo, 2, 0),
                      Op("none", "vector_attribute", MMRP_VECTOR_ATTRIBUTE_GROUP_OFFSET + vo, vl, 0),
                      Op("val", "vector_header", MMRP_VECTOR_HEADER_OFFSET + vo, 2, 0),
                      Op("uint", "leave_all_event", MMRP_VECTOR_HEADER_OFFSET + vo, 2, LeaveAllEvent(h)),
                      Op("uint", "number_of_values", MMRP_VECTOR_HEADER_OFFSET + vo, 2, NumberOfValues(h))>>
                    \o FirstValueOps(attribute_type, MMRP_FIRST_VALUE_GROUP_OFFSET + vo), log)
       IN  /\ number_of_values' = nv
           /\ vect_attr_len' = vl
           /\ IF r.ok
              THEN /\ log' = r.log
                   /\ UNCHANGED result
                   /\ IF known
                      THEN /\ pc' = "tpe_loop"
                           /\ tpe_offset' = ThreePackedOffset(attribute_type) + vo
                           /\ tpe_start' = ThreePackedOffset(attribute_type) + vo
                           /\ counter' = 0
                      ELSE /\ pc' = "vect_next"
                           /\ UNCHANGED <<tpe_offset, tpe_start, counter>>
              ELSE /\ Throw(r.log)
                   /\ UNCHANGED <<tpe_offset, tpe_start, counter>>
    /\ UNCHANGED <<tvb, tree, input, attribute_type, attribute_length, offset, msg_offset,
                   vect_offset, caller>>

\* the body of a VectorAttribute stepped over for the two known types only
VectNextKnownOnly ==
    /\ pc = "vect_next"
    /\ vect_offset' = vect_offset +
           (IF attribute_type \in {MMRP_ATTRIBUTE_TYPE_MAC, MMRP_ATTRIBUTE_TYPE_SERVICE}
            THEN vect_attr_len ELSE 2)
    /\ pc' = "vect_loop"
    /\ UNCHANGED <<tvb, tree, input, attribute_type, attribute_length, number_of_values,
                   offset, vect_attr_len, msg_offset, counter, tpe_offset, tpe_start,
                   caller, result, log>>

\* line 334
VectNext ==
    /\ pc = "vect_next"
    /\ vect_offset' = vect_offset + vect_attr_len
    /\ pc' = "vect_loop"
    /\ UNCHANGED <<tvb, tree, input, attribute_type, attribute_length, number_of_values,
                   offset, vect_attr_len, msg_offset, counter, tpe_offset, tpe_start,
                   caller, result, log>>

\* lines 337-339: the VectorAttribute EndMark item, then the next Message
ListEnd ==
    /\ pc = "list_end"
    /\ LET r == Run(<<Op("val", "list_end_mark", ListEndMarkOffset, 2, 0)>>, log)
       IN  IF r.ok
           THEN /\ msg_offset' = NextMsgOffset(msg_offset, vect_offset)
                /\ pc' = "msg_loop"
                /\ log' = r.log
                /\ UNCHANGED result
           ELSE /\ Throw(r.log)
                /\ UNCHANGED msg_offset
    /\ UNCHANGED <<tvb, tree, input, attribute_type, attribute_length, number_of_values,
                   offset, vect_attr_len, vect_offset, counter, tpe_offset, tpe_start, caller>>

\* line 343: the Message EndMark item
FrameEnd ==
    /\ pc = "frame_end"
    /\ LET r == Run(<<Op("val", "frame_end_mark", FrameEndMarkOffset, 2, 0)>>, log)
       IN  IF r.ok
           THEN /\ pc' = "return"
                /\ log' = r.log
                /\ UNCHANGED result
           ELSE Throw(r.log)
    /\ UNCHANGED <<tvb, tree, input, attribute_type, attribute_length, number_of_values,
                   offset, vect_attr_len, msg_offset, vect_offset, counter, tpe_offset,
                   tpe_start, caller>>

\* line 345
Return ==
    /\ pc = "return"
    /\ result' = tvb_captured_length
    /\ pc' = "done"
    /\ UNCHANGED <<tvb, tree, input, attribute_type, attribute_length, number_of_values,
                   offset, vect_attr_len, msg_offset, vect_offset, counter, tpe_offset,
                   tpe_start, caller, log>>

-----------------------------------------------------------------------------
(* dissect_mmrp_three_packed_event *)

\* all three digits added whatever the count
EventOpsUnguarded(off, ev, c, nv) ==
    <<Op("uint", "three_packed_event", off, 1, ev[1]),
      Op("uint", "three_packed_event", off, 1, ev[2]),
      Op("uint", "three_packed_event", off, 1, ev[3])>>

\* the items one iteration adds: e0 always, e1 and e2 while counter < number_of_values
EventOps(off, ev, c, nv) ==
    <<Op("uint", "three_packed_event", off, 1, ev[1])>>
    \o (IF c + 1 < nv THEN <<Op("uint", "three_packed_event", off, 1, ev[2])>> ELSE <<>>)
    \o (IF c + 2 < nv THEN <<Op("uint", "three_packed_event", off, 1, ev[3])>> ELSE <<>>)

\* lines 175-201: one iteration of the for loop
TpeIter ==
    /\ pc = "tpe_loop"
    /\ counter < number_of_values
    /\ LET r == Run(<<Op("get", "three_packed_event", tpe_offset, 1, 0)>>, log)
       IN  IF r.ok
           THEN LET ops == EventOps(tpe_offset, three_packed_event(tvb_get_guint8(tpe_offset)),
                                    counter, number_of_values)
                IN  /\ log' = r.log \o ops
                    /\ counter' = counter + Len(ops)
                    /\ tpe_offset' = tpe_offset + 1
                    /\ UNCHANGED <<pc, result>>
           ELSE /\ Throw(r.log)
                /\ UNCHANGED <<counter, tpe_offset>>
    /\ UNCHANGED <<tvb, tree, input, attribute_type, attribute_length, number_of_values,
                   offset, vect_attr_len, msg_offset, vect_offset, tpe_start, caller>>

\* the value returned by the event expander not assigned to offset
TpeReturnDiscarded ==
    /\ pc = "tpe_loop"
    /\ ~(counter < number_of_values)
    /\ IF caller = "dissect_mmrp"
       THEN /\ pc' = "vect_next"
            /\ UNCHANGED <<result, offset>>
       ELSE /\ result' = tpe_offset
            /\ pc' = "done"
            /\ UNCHANGED offset
    /\ UNCHANGED <<tvb, tree, input, attribute_type, attribute_length, number_of_values,
                   vect_attr_len, msg_offset, vect_offset, counter, tpe_offset, tpe_start,
                   caller, log>>

\* lines 175 and 202, and the assignment of lines 314 and 329
TpeReturn ==
    /\ pc = "tpe_loop"
    /\ ~(counter < number_of_values)
    /\ IF caller = "dissect_mmrp"
       THEN /\ offset' = tpe_offset
            /\ pc' = "vect_next"
            /\ UNCHANGED result
       ELSE /\ result' = tpe_offset
            /\ pc' = "done"
            /\ UNCHANGED offset
    /\ UNCHANGED <<tvb, tree, input, attribute_type, attribute_length, number_of_values,
                   vect_attr_len, msg_offset, vect_offset, counter, tpe_offset, tpe_start,
                   caller, log>>

-----------------------------------------------------------------------------
(* Specifications *)

Next ==
    \/ Enter
    \/ MsgLoopTest
    \/ MsgBody
    \/ VectLoopTest
    \/ VectBody
    \/ TpeIter
    \/ TpeReturn
    \/ VectNext
    \/ ListEnd
    \/ FrameEnd
    \/ Return

Spec == Init /\ [][Next]_vars

\* the dissector runs to completion once called
FairSpec == Spec /\ WF_vars(Next)

\* a direct call dissect_mmrp_three_packed_event(tree, tvb, s, n)
TpeInit ==
    /\ tvb \in TpeBufs
    /\ input = [kind |-> "direct", msgs |-> <<>>]
    /\ tree = TRUE
    /\ pc = "tpe_loop"
    /\ caller = "direct"
    /\ attribute_type = 0
    /\ attribute_length = 0
    /\ number_of_values \in 0 .. MaxTpeN
    /\ tpe_offset \in 0 .. 1
    /\ tpe_start = tpe_offset
    /\ offset = 0
    /\ vect_attr_len = 0
    /\ msg_offset = 0
    /\ vect_offset = 0
    /\ counter = 0
    /\ result = "none"
    /\ log = <<>>

TpeNext == TpeIter \/ TpeReturn

TpeSpec == TpeInit /\ [][TpeNext]_vars

\* calls of dissect_mmrp on a Service Message (AttributeLength 1) whose first
\* VectorHeader takes every 16-bit value; the buffer ends after the FirstValue
HdrBufs == { <<0, MMRP_ATTRIBUTE_TYPE_SERVICE, 1, hi, lo, FirstValueByte>> :
             hi \in 0 .. 255, lo \in 0 .. 255 }

HdrInit ==
    /\ tvb \in HdrBufs
    /\ input = [kind |-> "header", msgs |-> <<>>]
    /\ tree = TRUE
    /\ pc = "enter"
    /\ caller = "dissect_mmrp"
    /\ InitLocals

\* the steps of dissect_mmrp that such a call takes
HdrNext ==
    \/ Enter
    \/ MsgLoopTest
    \/ MsgBody
    \/ VectLoopTest
    \/ VectBody
    \/ TpeIter
    \/ TpeReturn
    \/ VectNext
    \/ ListEnd

HdrSpec == HdrInit /\ [][HdrNext]_vars

\* calls of dissect_mmrp on the two frames that hold one VectorAttribute with
\* the VectorHeader 0x1FFF (the largest NumberOfValues): a Service Message,
\* and a Message of type 3 with the largest AttributeLength
BigHeader == <<31, 255>>

BigFrames ==
    { <<0, k[1], k[2]>> \o BigHeader \o Fill(k[2], FirstValueByte)
      \o Fill(Ceil3(NumberOfValues(BigHeader[1] * 256 + BigHeader[2])), PackedByte)
      \o <<0, 0, 0, 0>> : k \in {<<MMRP_ATTRIBUTE_TYPE_SERVICE, 1>>, <<3, 255>>} }

BigInit ==
    /\ tvb \in BigFrames
    /\ input = [kind |-> "big", msgs |-> <<>>]
    /\ tree = TRUE
    /\ pc = "enter"
    /\ caller = "dissect_mmrp"
    /\ InitLocals

BigSpec == BigInit /\ [][Next]_vars

-----------------------------------------------------------------------------
(* Views of the log *)

IsEvent(e) == e.k = "uint" /\ e.hf = "three_packed_event"
IsPackedRead(e) == e.k = "get" /\ e.hf = "three_packed_event"

\* the PackedEvent items, in the order they were added
Events == SelectSeq(log, IsEvent)

\* the packed bytes fetched, in the order they were fetched
PackedReads == SelectSeq(log, IsPackedRead)

\* digit d (0, 1, 2) of a packed byte, by the wire format: v/36, (v%36)/6, v%6
Digit(v, d) == IF d = 0 THEN v \div 36 ELSE IF d = 1 THEN (v % 36) \div 6 ELSE v % 6

Min(a, b) == IF a <= b THEN a ELSE b

\* what a call with start s and count n is to do: fetch one byte, add its
\* live digits, go to the next byte
RECURSIVE ExpanderLog(_, _)
ExpanderLog(s, n) ==
    IF n <= 0 THEN <<>>
    ELSE <<Op("get", "three_packed_event", s, 1, tvb[s + 1])>>
         \o [d \in 1 .. Min(3, n) |-> Op("uint", "three_packed_event", s, 1, Digit(tvb[s + 1], d - 1))]
         \o ExpanderLog(s + 1, n - 3)

-----------------------------------------------------------------------------
(* Claims about dissect_mmrp_three_packed_event, under TpeSpec *)

\* C2: a call with start offset s and count N on a buffer that holds
\* ceil(N/3) bytes from s does not fail, fetches exactly the bytes
\* s .. s+ceil(N/3)-1 once each in increasing order, adds exactly N events in
\* order (byte by byte, e0, e1, e2 within a byte), and returns s + ceil(N/3).
C2_ExpanderContract ==
    tvb_bytes_exist(tpe_start, Ceil3(number_of_values)) =>
        /\ pc # "error"
        /\ pc = "done" =>
              /\ log = ExpanderLog(tpe_start, number_of_values)
              /\ Len(Events) = number_of_values
              /\ PackedReads = [i \in 1 .. Ceil3(number_of_values) |->
                                  Op("get", "three_packed_event", tpe_start + i - 1, 1,
                                     tvb[tpe_start + i])]
              /\ result = tpe_start + Ceil3(number_of_values)

\* a call with N = 5 from offset 1 has returned 3
C2_Witness ==
    /\ pc = "done"
    /\ caller = "direct"
    /\ number_of_values = 5
    /\ tpe_start = 1
    /\ result = 3
    /\ Len(Events) = 5

\* C3: for every byte v in 0..215 the digits added after fetching v are, in
\* order, v/36, (v%36)/6, v%6; and the digits of the last fetched byte that
\* lie beyond the N-th event (e2 when N%3 = 2, e1 and e2 when N%3 = 1) are
\* never added.
C3_PackedEventLaw ==
    /\ \A i \in 1 .. Len(log) :
          (IsPackedRead(log[i]) /\ log[i].v <= 215) =>
              \A d \in 1 .. 3 :
                  (i + d <= Len(log) /\ \A j \in i + 1 .. i + d : IsEvent(log[j])) =>
                      /\ log[i + d].v = Digit(log[i].v, d - 1)
                      /\ log[i + d].off = log[i].off
    /\ \A i \in 1 .. Len(log) :
          IsEvent(log[i]) => \E d \in 1 .. 3 : i - d >= 1 /\ IsPackedRead(log[i - d])
                                               /\ \A j \in i - d + 1 .. i : IsEvent(log[j])
    /\ (pc = "done" /\ number_of_values > 0) =>
          LET last == tpe_offset - 1
              live == number_of_values - 3 * (Ceil3(number_of_values) - 1)
          IN  /\ live = (IF number_of_values % 3 = 0 THEN 3 ELSE number_of_values % 3)
              /\ Cardinality({i \in 1 .. Len(log) : IsEvent(log[i]) /\ log[i].off = last}) = live
              /\ IsEvent(log[Len(log)])
              /\ log[Len(log)].v = Digit(tvb[last + 1], live - 1)

\* a call with N = 4 has returned after fetching byte 41 = 1*36 + 0*6 + 5
\* second: only its digit e0 = 1 was added
C3_Witness ==
    /\ pc = "done"
    /\ caller = "direct"
    /\ number_of_values = 4
    /\ tpe_start = 0
    /\ Len(tvb) >= 2
    /\ tvb[1] = 215
    /\ tvb[2] = 41
    /\ Len(Events) = 4
    /\ Events[3].v = 5
    /\ Events[4].v = 1

\* C10: every PackedEvent value added is one of the values of
\* three_packed_vals, 0..5, whatever the byte and the count.
C10_EventInRange == \A i \in 1 .. Len(Events) : Events[i].v \in three_packed_vals

-----------------------------------------------------------------------------
(* The decoded structure, read off the log *)

IsItem(e, hf) == e.k \in {"none", "val", "uint"} /\ e.hf = hf
IsGet(e, hf) == e.k = "get" /\ e.hf = hf

\* indices of the log entries that are the item hf, in order
ItemIdx(hf) == SelectSeq([i \in 1 .. Len(log) |-> i], LAMBDA i : IsItem(log[i], hf))

\* number of items hf among log[from .. to-1]
CountIn(hf, from, to) == Cardinality({i \in from .. to - 1 : IsItem(log[i], hf)})

\* end of the part of the log that belongs to the k-th of the items at idx
UpTo(idx, k, limit) == IF k < Len(idx) THEN idx[k + 1] ELSE limit

\* per Message, per VectorAttribute, the number of PackedEvent items
Decoded ==
    LET mi == ItemIdx("message")
    IN  [m \in 1 .. Len(mi) |->
           LET mend == UpTo(mi, m, Len(log) + 1)
               vi == SelectSeq(ItemIdx("vector_attribute"), LAMBDA i : mi[m] < i /\ i < mend)
           IN  [v \in 1 .. Len(vi) |-> CountIn("three_packed_event", vi[v], UpTo(vi, v, mend))]]

\* per Message, per VectorAttribute, the NumberOfValues the frame was built with
Built == [m \in 1 .. Len(input.msgs) |->
            [v \in 1 .. Len(input.msgs[m].vas) |-> input.msgs[m].vas[v][2]]]

Last(q) == q[Len(q)]

-----------------------------------------------------------------------------
(* Claims about dissect_mmrp, under Spec *)

\* C1: on every well-formed frame built from the wire grammar no fetch of
\* the framing fails, the Message loop stops at the last 2 bytes of the
\* buffer, and the Messages, the VectorAttributes per Message and the
\* PackedEvents per VectorAttribute are as many as the frame was built with.
\* (The End Mark items, added after the loops, are the subject of C6 and C7.)
C1_RoundTrip ==
    (input.kind = "wellformed" /\ tree) =>
        /\ pc = "error" => Last(log).hf \in {"list_end_mark", "frame_end_mark"}
        /\ pc = "frame_end" =>
              /\ IsGet(Last(log), "msg_peek")
              /\ Last(log).off = Len(tvb) - 2
              /\ Decoded = Built

\* C6: the List End Mark item of every Message covers the 2 bytes at which
\* the VectorAttribute loop has just read 0x0000.
C6_ListEndMarkAtPeek ==
    \A i \in 1 .. Len(log) :
        log[i].hf = "list_end_mark" =>
            /\ log[i].k = "val"
            /\ log[i].len = 2
            /\ i > 1
            /\ IsGet(log[i - 1], "vect_peek")
            /\ log[i].off = log[i - 1].off

\* C7: the Frame End Mark item covers the 2 bytes at which the Message loop
\* has just read 0x0000.
C7_FrameEndMarkAtPeek ==
    \A i \in 1 .. Len(log) :
        log[i].hf = "frame_end_mark" =>
            /\ log[i].k = "val"
            /\ log[i].len = 2
            /\ i > 1
            /\ IsGet(log[i - 1], "msg_peek")
            /\ log[i].off = log[i - 1].off

\* number of packed bytes fetched since the last peek of the VectorAttribute loop
PackedReadsOfVA ==
    LET peeks == {i \in 1 .. Len(log) : IsGet(log[i], "vect_peek")}
        from == IF peeks = {} THEN 0 ELSE CHOOSE i \in peeks : \A j \in peeks : j <= i
    IN  Cardinality({i \in from + 1 .. Len(log) : log[i].hf = "three_packed_event" /\ log[i].k # "uint"})

\* C8: for every VectorAttribute, whatever the AttributeType, the
\* VectorAttribute loop advances vect_offset by exactly
\* 2 + AttributeLength + ceil(NumberOfValues/3), the two fields being those on
\* the wire; with NumberOfValues = 0 no packed byte is fetched and the advance
\* is exactly 2 + AttributeLength.
C8_VectAdvance ==
    [][pc = "vect_next" =>
          LET al == tvb_get_guint8(MMRP_ATTRIBUTE_LENGTH_OFFSET + msg_offset)
              h == tvb_get_ntohs(MMRP_VECTOR_HEADER_OFFSET + msg_offset + vect_offset)
              nv == h % 8192
          IN  /\ vect_offset' = vect_offset + 2 + al + Ceil3(nv)
              /\ nv = 0 => /\ PackedReadsOfVA = 0
                           /\ vect_offset' = vect_offset + 2 + al]_vars

\* a MAC VectorAttribute with NumberOfValues = 0 and AttributeLength = 6 has
\* been stepped over: 8 bytes
C8_Witness ==
    /\ pc = "vect_loop"
    /\ attribute_type = MMRP_ATTRIBUTE_TYPE_MAC
    /\ attribute_length = 6
    /\ number_of_values = 0
    /\ vect_offset = 8
    /\ Last(log).hf = "mac"

\* fields of a Message and of a VectorAttribute, with their distance from
\* the start of the record
MsgFieldAt == [message |-> 0, attribute_type |-> 0, attribute_length |-> 1, attribute_list |-> 2]
VectFieldAt == [vector_attribute |-> 0, vector_header |-> 0, leave_all_event |-> 0,
                number_of_values |-> 0, first_value |-> 2, mac |-> 2, ser_req |-> 2]

\* index of the last peek hf before log[i], 0 if there is none
LastPeekBefore(i, hf) ==
    LET peeks == {j \in 1 .. i - 1 : IsGet(log[j], hf)}
    IN  IF peeks = {} THEN 0 ELSE CHOOSE j \in peeks : \A k \in peeks : k <= j

\* C9: at both levels the 2 bytes at the candidate record offset are fetched
\* and compared with 0x0000 before any field of a record starting there is
\* fetched or added; a record is parsed only where the peek was not 0x0000,
\* and after a peek of 0x0000 the loop of that level ends (only the End Mark
\* item follows at that level).
C9_PeekThenCommit ==
    \A i \in 1 .. Len(log) :
        /\ log[i].hf \in DOMAIN MsgFieldAt =>
              LET j == LastPeekBefore(i, "msg_peek")
              IN  /\ j > 0
                  /\ log[j].v # MMRP_END_MARK
                  /\ log[j].len = 2
                  /\ log[j].off = log[i].off - MsgFieldAt[log[i].hf]
                  /\ IsGet(log[i], "attribute_type") => j = i - 1
        /\ (log[i].hf \in DOMAIN VectFieldAt \/ log[i].hf = "three_packed_event") =>
              LET j == LastPeekBefore(i, "vect_peek")
              IN  /\ j > 0
                  /\ log[j].v # MMRP_END_MARK
                  /\ log[j].len = 2
                  /\ LastPeekBefore(i, "msg_peek") < j
                  /\ log[i].hf \in DOMAIN VectFieldAt =>
                        log[j].off = log[i].off - VectFieldAt[log[i].hf]
                  /\ IsGet(log[i], "number_of_values") => j = i - 1
        /\ (IsGet(log[i], "msg_peek") /\ log[i].v = MMRP_END_MARK) =>
              /\ i >= Len(log) - 1
              /\ i < Len(log) => log[i + 1].hf = "frame_end_mark"
        /\ (IsGet(log[i], "vect_peek") /\ log[i].v = MMRP_END_MARK) =>
              /\ i < Len(log) => log[i + 1].hf = "list_end_mark"
              /\ i + 1 < Len(log) => log[i + 2].hf = "msg_peek"
        /\ (IsGet(log[i], "msg_peek") \/ IsGet(log[i], "vect_peek")) => log[i].v = tvb_get_ntohs(log[i].off)

\* the inner loop has ended on 0x0000 after one VectorAttribute was parsed,
\* and the outer loop has ended on 0x0000 after that Message
C9_Witness ==
    /\ pc = "done"
    /\ tree
    /\ Len(ItemIdx("message")) = 2
    /\ Len(ItemIdx("vector_attribute")) >= 1
    /\ Len(ItemIdx("list_end_mark")) = 2
    /\ Len(ItemIdx("frame_end_mark")) = 1

\* C4: on a buffer cut short of the length its own header fields imply, the
\* decode never reaches its normal end; it keeps going until a fetch runs
\* past the end of the buffer, which is the first such fetch, raises
\* Truncated, and is the last thing the decode does.
C4_Truncation ==
    (input.kind = "truncated" /\ tree) =>
        /\ pc \notin {"frame_end", "return", "done"}
        /\ pc # "error" =>
              /\ ENABLED Next
              /\ \A i \in 1 .. Len(log) :
                    /\ log[i].k # "throw"
                    /\ log[i].k \in {"get", "val"} => tvb_bytes_exist(log[i].off, log[i].len)
        /\ pc = "error" =>
              /\ result = "Truncated"
              /\ ~ENABLED Next
              /\ Last(log).k = "throw"
              /\ ~tvb_bytes_exist(Last(log).off, Last(log).len)
              /\ \A i \in 1 .. Len(log) - 1 :
                    /\ log[i].k # "throw"
                    /\ log[i].k \in {"get", "val"} => tvb_bytes_exist(log[i].off, log[i].len)

\* a frame cut inside the packed bytes of a VectorAttribute: the first packed
\* byte was decoded, the fetch of the missing second one raised Truncated
C4_Witness ==
    /\ input.kind = "truncated"
    /\ tree
    /\ pc = "error"
    /\ Last(log).hf = "three_packed_event"
    /\ Last(log).k = "throw"
    /\ Len(Events) = 3
    /\ number_of_values = 4

\* iterations of the three loops so far: Messages, VectorAttributes, packed bytes
Iterations ==
    Len(ItemIdx("message")) + Len(ItemIdx("vector_attribute")) + Len(PackedReads)

Stopped == pc \in {"done", "error"}

\* C5: dissect_mmrp eventually stops (normal return or Truncated); every
\* iteration of the VectorAttribute loop increases vect_offset by at least 2,
\* every iteration of the Message loop increases msg_offset by at least 4,
\* every iteration of the packed-event loop increases its offset by 1, no
\* other step of a loop changes these offsets, and the number of iterations
\* never exceeds the buffer length.
C5_Termination ==
    /\ <>Stopped
    /\ [][/\ pc = "vect_next" => vect_offset' >= vect_offset + 2
          /\ pc = "list_end" /\ pc' = "msg_loop" => msg_offset' >= msg_offset + 4
          /\ pc = "tpe_loop" /\ pc' = "tpe_loop" => tpe_offset' = tpe_offset + 1
          /\ pc # "list_end" => UNCHANGED msg_offset
          /\ pc \notin {"vect_next", "msg_body"} => UNCHANGED vect_offset
          /\ pc \notin {"tpe_loop", "vect_body"} => UNCHANGED tpe_offset]_vars
    /\ [](Iterations <= Len(tvb))

\* a run that went twice through the Message loop and through the other two
\* loops, and returned
C5_Witness ==
    /\ pc = "done"
    /\ tree
    /\ Len(ItemIdx("message")) = 2
    /\ Len(ItemIdx("vector_attribute")) >= 1
    /\ Len(PackedReads) >= 2
    /\ Iterations >= 5

-----------------------------------------------------------------------------
(* Unknown AttributeTypes *)

KnownTypes == {MMRP_ATTRIBUTE_TYPE_MAC, MMRP_ATTRIBUTE_TYPE_SERVICE}

\* the offsets at which the wire grammar puts the peeks of the two loops
RECURSIVE VAPeeks(_, _, _)
VAPeeks(al, vas, p) ==
    <<[hf |-> "vect_peek", off |-> p]>>
    \o (IF vas = <<>> THEN <<>> ELSE VAPeeks(al, Tail(vas), p + VALen(al, Head(vas))))

RECURSIVE MsgPeeks(_, _)
MsgPeeks(ms, p) ==
    <<[hf |-> "msg_peek", off |-> p]>>
    \o (IF ms = <<>> THEN <<>>
        ELSE VAPeeks(Head(ms).len, Head(ms).vas, p + 2)
             \o MsgPeeks(Tail(ms), p + Len(BuildMsg(Head(ms)))))

ExpectedPeeks == MsgPeeks(input.msgs, 1)

\* the peeks of the two loops, in the order they were made
LogPeeks ==
    LET ps == SelectSeq(log, LAMBDA e : IsGet(e, "msg_peek") \/ IsGet(e, "vect_peek"))
    IN  [i \in 1 .. Len(ps) |-> [hf |-> ps[i].hf, off |-> ps[i].off]]

IsPrefix(s, t) == Len(s) <= Len(t) /\ s = SubSeq(t, 1, Len(s))

BuiltFrame == input.kind \in {"wellformed", "trailing"}

\* the Messages of known type have the FirstValue length of their type
StandardLengths(ms) ==
    \A m \in 1 .. Len(ms) :
        /\ ms[m].type = MMRP_ATTRIBUTE_TYPE_MAC => ms[m].len = 6
        /\ ms[m].type = MMRP_ATTRIBUTE_TYPE_SERVICE => ms[m].len = 1

HasUnknown(ms) == \E m \in 1 .. Len(ms) : ms[m].type \notin KnownTypes

Shape(d) == [m \in 1 .. Len(d) |-> Len(d[m])]

\* C11: an AttributeType that is neither Service (1) nor MAC (2) is no error:
\* while the current Message has such a type nothing fails but a peek past
\* the end of the buffer (or the Frame End Mark item after the last Message);
\* on every frame built from the wire grammar the peeks of both loops are
\* made at the offsets of the grammar, each VectorAttribute taking
\* 2 + AttributeLength + ceil(NumberOfValues/3) bytes whatever the type; and
\* a frame that holds a Message of unknown type among Messages of standard
\* length is decoded to its end, with all its Messages and VectorAttributes.
C11_UnknownTypeRecovered ==
    tree =>
        /\ (pc = "error" /\ Len(ItemIdx("message")) > 0 /\ attribute_type \notin KnownTypes) =>
              Last(log).hf \in {"msg_peek", "vect_peek", "frame_end_mark"}
        /\ BuiltFrame => IsPrefix(LogPeeks, ExpectedPeeks)
        /\ (BuiltFrame /\ HasUnknown(input.msgs) /\ StandardLengths(input.msgs)) =>
              /\ pc # "error"
              /\ pc = "done" =>
                    /\ LogPeeks = ExpectedPeeks
                    /\ Shape(Decoded) = Shape(Built)

\* a Message of type 3 with a VectorAttribute of one value was stepped over
\* and the Message after it was found at offset 10
C11_Witness ==
    /\ pc = "done"
    /\ tree
    /\ input.kind = "wellformed"
    /\ Len(input.msgs) = 2
    /\ input.msgs[1].type = 3
    /\ input.msgs[1].vas = << <<0, 1>> >>
    /\ Len(ItemIdx("message")) = 2
    /\ log[ItemIdx("message")[2]].off = 10
    /\ Len(ItemIdx("vector_attribute")) = 1

-----------------------------------------------------------------------------
(* The VectorHeader, under HdrSpec *)

\* bit i of x
Bit(x, i) == (x \div 2 ^ i) % 2

\* a & b on 16 bits, bit by bit
RECURSIVE And16From(_, _, _)
And16From(a, b, i) ==
    IF i > 15 THEN 0 ELSE Bit(a, i) * Bit(b, i) * 2 ^ i + And16From(a, b, i + 1)

And16(a, b) == And16From(a, b, 0)

\* the first VectorHeader of the buffer, as the big-endian value of its bytes
WireHeader == tvb[4] * 256 + tvb[5]

\* the value of the only item hf of the log
ItemValue(hf) == log[ItemIdx(hf)[1]].v

\* C12: for every 16-bit VectorHeader h the NumberOfValues the dissector uses
\* and shows is h & 0x1FFF, in 0..8191, and the LeaveAllEvent it shows is
\* (h & 0xE000) >> 13, in 0..7; nothing else is checked: every header other
\* than 0x0000 is decoded as a VectorAttribute.
C12_HeaderFields ==
    /\ Len(ItemIdx("vector_header")) = 1 =>
          /\ ItemValue("vector_header") = WireHeader
          /\ number_of_values = And16(WireHeader, 8191)
          /\ number_of_values \in 0 .. 8191
          /\ ItemValue("number_of_values") = number_of_values
          /\ ItemValue("leave_all_event") = And16(WireHeader, 57344) \div 8192
          /\ ItemValue("leave_all_event") \in 0 .. 7
          /\ WireHeader = ItemValue("leave_all_event") * 8192 + number_of_values
    /\ (WireHeader # 0 /\ pc \in {"tpe_loop", "vect_next", "error"}) =>
          /\ Len(ItemIdx("vector_header")) = 1
          /\ Len(ItemIdx("ser_req")) = 1
    /\ WireHeader = 0 => Len(ItemIdx("vector_header")) = 0

\* the header 0xBFFE was decoded: LeaveAllEvent 5, NumberOfValues 8190
C12_Witness ==
    /\ pc = "tpe_loop"
    /\ WireHeader = 49150
    /\ number_of_values = 8190
    /\ ItemValue("leave_all_event") = 5
    /\ ItemValue("number_of_values") = 8190

-----------------------------------------------------------------------------
(* The largest NumberOfValues, under BigSpec *)

\* largest value of a 16-bit int, the narrowest int there is
INT16_MAX == 2 ^ 15 - 1

\* C13: with NumberOfValues = 8191 the dissector fetches 2731 packed bytes
\* and adds 8191 events; number_of_values + 2, (number_of_values + 2)/3, the
\* event counter, the offsets and vect_attr_len = 2 + AttributeLength + 2731
\* (AttributeLength up to 255) hold their mathematical values, all of which
\* fit a 16-bit int: nothing overflows or wraps.
C13_NoOverflow ==
    /\ pc # "error"
    /\ number_of_values <= 8191
    /\ number_of_values + 2 <= INT16_MAX
    /\ (number_of_values + 2) \div 3 <= 2731
    /\ counter <= number_of_values
    /\ tpe_offset - tpe_start <= 2731
    /\ \A x \in {vect_attr_len, vect_offset, msg_offset, offset, tpe_offset, counter} :
          x \in 0 .. INT16_MAX
    /\ Len(ItemIdx("vector_attribute")) > 0 =>
          /\ number_of_values = 8191
          /\ vect_attr_len = 2 + tvb[3] + 2731
          /\ log[ItemIdx("vector_attribute")[1]].len = 2 + tvb[3] + 2731
    /\ (pc = "vect_next" /\ attribute_type \in KnownTypes) =>
          /\ counter = 8191
          /\ tpe_offset = tpe_start + 2731
          /\ offset = tpe_start + 2731
          /\ Len(PackedReads) = 2731
          /\ Len(Events) = 8191
    /\ pc \in {"list_end", "frame_end", "return", "done"} =>
          vect_offset = 2 + tvb[3] + 2731
    /\ pc \in {"frame_end", "return", "done"} =>
          msg_offset = 2 + tvb[3] + 2731 + 4
    /\ pc = "done" => result = Len(tvb)

\* the frame of type 3 with AttributeLength 255 and 8191 values was decoded
\* to its end: its VectorAttribute took 2 + 255 + 2731 bytes
C13_Witness ==
    /\ pc = "done"
    /\ attribute_type = 3
    /\ attribute_length = 255
    /\ number_of_values = 8191
    /\ vect_attr_len = 2988
    /\ vect_offset = 2988
    /\ msg_offset = 2992
    /\ result = 2995

-----------------------------------------------------------------------------
(* The event cursor and the order of the decode, under Spec *)

\* offset of the VectorHeader of the VectorAttribute being decoded
VectorHeaderAt == MMRP_VECTOR_HEADER_OFFSET + msg_offset + vect_offset

\* C14: for every VectorAttribute of a MAC or Service Message, whatever the
\* AttributeLength, the first packed byte is fetched at VectorHeader offset
\* + 2 + AttributeLength, and the cursor the event expander returns is the
\* start of the next VectorAttribute, VectorHeader offset + vect_attr_len.
C14_PackedAfterFirstValue ==
    /\ (pc = "tpe_loop" /\ caller = "dissect_mmrp") =>
          tpe_start = VectorHeaderAt + 2 + attribute_length
    /\ (pc = "vect_next" /\ attribute_type \in KnownTypes) =>
          offset = VectorHeaderAt + vect_attr_len

\* the current Message is MAC with AttributeLength 6 or Service with 1
StandardMsg ==
    \/ attribute_type = MMRP_ATTRIBUTE_TYPE_MAC /\ attribute_length = 6
    \/ attribute_type = MMRP_ATTRIBUTE_TYPE_SERVICE /\ attribute_length = 1

\* the value of offset when the previous Message ended: where its List End
\* Mark item was put, 0 before the first Message
OffsetOfPreviousMsg ==
    LET le == ItemIdx("list_end_mark")
    IN  IF le = <<>> THEN 0 ELSE log[Last(le)].off

\* C15: offset is written only by the return of the event expander.  When
\* the VectorAttribute loop of a MAC Message with AttributeLength 6 or a
\* Service Message with AttributeLength 1 ends after at least one
\* VectorAttribute, offset is the position of that Message's List End Mark
\* (where the loop has just read 0x0000); when it ends with no
\* VectorAttribute, offset is what the previous Message left, 0 for the
\* first Message.
C15_OffsetCursor ==
    /\ [][offset' # offset =>
            /\ pc = "tpe_loop"
            /\ pc' = "vect_next"
            /\ offset' = tpe_offset]_vars
    /\ [](pc = "list_end" =>
            /\ (StandardMsg /\ vect_offset > 0) =>
                  /\ offset = VectorHeaderAt
                  /\ IsGet(Last(log), "vect_peek")
                  /\ Last(log).off = offset
            /\ vect_offset = 0 => offset = OffsetOfPreviousMsg)

\* the VectorAttribute loop of a second Message has ended at once, and
\* offset is still the List End Mark position of the first Message
C15_Witness ==
    /\ pc = "list_end"
    /\ vect_offset = 0
    /\ Len(ItemIdx("list_end_mark")) = 1
    /\ Len(ItemIdx("three_packed_event")) > 0
    /\ offset = log[ItemIdx("list_end_mark")[1]].off
    /\ offset = log[LastPeekBefore(ItemIdx("list_end_mark")[1], "vect_peek")].off
    /\ offset > 0

\* sum of the lengths of the VectorAttribute items among log[from .. to]
RECURSIVE VectLenSum(_, _)
VectLenSum(from, to) ==
    IF from > to THEN 0
    ELSE (IF IsItem(log[from], "vector_attribute") THEN log[from].len ELSE 0)
         + VectLenSum(from + 1, to)

\* C16: when the VectorAttribute loop of a Message ends, msg_offset grows by
\* vect_offset + 4, so the Message loop looks next at the byte right after
\* the 2 bytes where the VectorAttribute loop read 0x0000: the start of the
\* previous Message + 2 + the lengths of its VectorAttributes + 2.  The
\* first look is at offset 1.  No byte between two Messages is skipped, none
\* belongs to two Messages.
C16_NextMessageAfterEndMark ==
    /\ [][(pc = "list_end" /\ pc' = "msg_loop") =>
             msg_offset' = msg_offset + vect_offset + 4]_vars
    /\ [](\A i \in 1 .. Len(log) :
             log[i].hf = "msg_peek" =>
                 LET j == LastPeekBefore(i, "vect_peek")
                     k == LastPeekBefore(i, "msg_peek")
                 IN  IF k = 0 THEN j = 0 /\ log[i].off = MMRP_MESSAGE_GROUP_OFFSET
                     ELSE /\ j > k
                          /\ log[j].v = MMRP_END_MARK
                          /\ log[i].off = log[j].off + 2
                          /\ log[i].off = log[k].off + 2 + VectLenSum(k, i) + 2)

\* after a Message with a VectorAttribute the Message loop has looked at the
\* byte after its List End Mark and found a second Message there
C16_Witness ==
    /\ pc = "msg_body"
    /\ msg_offset > 4
    /\ Len(ItemIdx("message")) = 1
    /\ Len(ItemIdx("vector_attribute")) >= 1
    /\ IsGet(Last(log), "msg_peek")
    /\ Last(log).off = log[LastPeekBefore(Len(log), "vect_peek")].off + 2
    /\ Last(log).off = MMRP_MESSAGE_GROUP_OFFSET + msg_offset

\* what is fetched and added for a Message between the peek that found it
\* and the first peek of its VectorAttribute loop, with the distance of each
\* entry from the start of the Message
MsgHeaderEntries ==
    << <<"get", "attribute_type", 0>>, <<"get", "attribute_length", 1>>,
       <<"none", "message", 0>>, <<"val", "attribute_type", 0>>,
       <<"val", "attribute_length", 1>>, <<"none", "attribute_list", 2>> >>

\* the entries of the log made for a VectorAttribute
IsVectEntry(e) == e.hf \in DOMAIN VectFieldAt \/ e.hf = "three_packed_event"

\* C17: the decode is strictly sequential.  The AttributeType and
\* AttributeLength of a Message are fetched and added before the first
\* VectorHeader of that Message is looked at; everything fetched or added for
\* a VectorAttribute of a Message comes before the End Mark item of that
\* Message and before anything of the next Message; each Message gets one
\* End Mark item, after its VectorAttributes; Message items and
\* VectorAttribute items are added in increasing order of buffer offset.
C17_Sequential ==
    /\ \A i \in 1 .. Len(log) :
          /\ log[i].hf = "vect_peek" =>
                LET k == LastPeekBefore(i, "msg_peek")
                IN  /\ k > 0
                    /\ k + Len(MsgHeaderEntries) < i
                    /\ \A d \in 1 .. Len(MsgHeaderEntries) :
                          /\ log[k + d].k = MsgHeaderEntries[d][1]
                          /\ log[k + d].hf = MsgHeaderEntries[d][2]
                          /\ log[k + d].off = log[k].off + MsgHeaderEntries[d][3]
                    /\ \A j \in k + Len(MsgHeaderEntries) + 1 .. i - 1 :
                          IsVectEntry(log[j]) \/ log[j].hf = "vect_peek"
          /\ IsVectEntry(log[i]) =>
                LET k == LastPeekBefore(i, "msg_peek")
                IN  /\ k > 0
                    /\ \A j \in k .. i : log[j].hf # "list_end_mark"
                    /\ CountIn("message", 1, i) = CountIn("list_end_mark", 1, i) + 1
          /\ log[i].hf = "list_end_mark" =>
                /\ CountIn("message", 1, i) = CountIn("list_end_mark", 1, i) + 1
                /\ \A j \in i + 1 .. Len(log) :
                      IsVectEntry(log[j]) => LastPeekBefore(j, "msg_peek") > i
    /\ \A i, j \in 1 .. Len(log) :
          (i < j /\ \E hf \in {"message", "vector_attribute"} :
                       IsItem(log[i], hf) /\ IsItem(log[j], hf)) =>
              log[i].off < log[j].off

\* two Messages were decoded, the first with a VectorAttribute and its
\* events, all of them before its End Mark item and before the second Message
C17_Witness ==
    /\ pc = "done"
    /\ Len(ItemIdx("message")) = 2
    /\ Len(ItemIdx("vector_attribute")) >= 1
    /\ Len(Events) >= 1
    /\ ItemIdx("vector_attribute")[1] < ItemIdx("list_end_mark")[1]
    /\ ItemIdx("list_end_mark")[1] < ItemIdx("message")[2]
    /\ log[ItemIdx("message")[1]].off < log[ItemIdx("message")[2]].off

\* C18: both loops test the whole 16-bit value.  The Message loop ends
\* exactly where the AttributeType byte and the AttributeLength byte are both
\* 0, the VectorAttribute loop exactly where LeaveAllEvent and NumberOfValues
\* are both 0; anything else is decoded as a record.  So no Message item has
\* AttributeType 0 and AttributeLength 0, no VectorAttribute has the header
\* 0x0000, and every decoded VectorAttribute has LeaveAllEvent # 0 or
\* NumberOfValues # 0.
C18_WholeEndMark ==
    \A i \in 1 .. Len(log) :
        /\ IsGet(log[i], "msg_peek") =>
              LET zero == tvb[log[i].off + 1] = 0 /\ tvb[log[i].off + 2] = 0
              IN  /\ zero => (i < Len(log) => log[i + 1].hf = "frame_end_mark")
                  /\ ~zero => (i < Len(log) => IsGet(log[i + 1], "attribute_type"))
                  /\ i = Len(log) => pc = (IF zero THEN "frame_end" ELSE "msg_body")
        /\ IsGet(log[i], "vect_peek") =>
              LET h == tvb[log[i].off + 1] * 256 + tvb[log[i].off + 2]
                  zero == h \div 8192 = 0 /\ h % 8192 = 0
              IN  /\ zero => (i < Len(log) => log[i + 1].hf = "list_end_mark")
                  /\ ~zero => (i < Len(log) => IsGet(log[i + 1], "number_of_values"))
                  /\ i = Len(log) => pc = (IF zero THEN "list_end" ELSE "vect_body")
        /\ IsItem(log[i], "message") =>
              ~(tvb[log[i].off + 1] = 0 /\ tvb[log[i].off + 2] = 0)
        /\ IsItem(log[i], "vector_header") =>
              /\ log[i].v # 0
              /\ IsItem(log[i + 1], "leave_all_event")
              /\ IsItem(log[i + 2], "number_of_values")
              /\ log[i + 1].v # 0 \/ log[i + 2].v # 0

\* a Message with AttributeType 0 and AttributeLength 1 was decoded, and the
\* decode went on to the end of the frame
C18_Witness ==
    /\ pc = "done"
    /\ Len(ItemIdx("message")) = 1
    /\ tvb[log[ItemIdx("message")[1]].off + 1] = 0
    /\ tvb[log[ItemIdx("message")[1]].off + 2] = 1
    /\ attribute_type = 0
    /\ attribute_length = 1

\* the AttributeType of the Message that log[i] belongs to, as fetched
TypeAt(i) == log[LastPeekBefore(i, "msg_peek") + 1].v

\* what is fetched and added for a VectorAttribute of a Message whose
\* AttributeType is neither MAC nor Service
UnknownVectEntries ==
    << <<"get", "number_of_values">>, <<"none", "vector_attribute">>,
       <<"val", "vector_header">>, <<"uint", "leave_all_event">>,
       <<"uint", "number_of_values">> >>

\* C19: for a Message whose AttributeType is neither 1 nor 2 each
\* VectorAttribute gets its container item and its VectorHeader (with the
\* two fields of the header) and nothing else: no FirstValue item, no MAC or
\* Service Requirement value, no PackedEvent, no packed byte fetched; the
\* event expander is not called and offset is not changed while that Message
\* is decoded.
C19_UnknownTypeItems ==
    /\ [][(attribute_type \notin KnownTypes
            /\ pc \in {"vect_loop", "vect_body", "vect_next", "list_end"}) =>
               /\ offset' = offset
               /\ pc' # "tpe_loop"]_vars
    /\ [](\A i \in 1 .. Len(log) :
             /\ log[i].hf \in {"first_value", "mac", "ser_req", "three_packed_event"} =>
                   TypeAt(i) \in KnownTypes
             /\ (IsGet(log[i], "number_of_values") /\ TypeAt(i) \notin KnownTypes) =>
                   /\ i + Len(UnknownVectEntries) - 1 <= Len(log)
                   /\ \A d \in 1 .. Len(UnknownVectEntries) :
                         /\ log[i + d - 1].k = UnknownVectEntries[d][1]
                         /\ log[i + d - 1].hf = UnknownVectEntries[d][2]
                         /\ log[i + d - 1].off = log[i].off
                   /\ i + Len(UnknownVectEntries) <= Len(log) =>
                         log[i + Len(UnknownVectEntries)].hf = "vect_peek")

\* a Message of type 3 with two VectorAttributes, the second of one value,
\* was decoded: two containers, two headers, nothing else, offset still 0
C19_Witness ==
    /\ pc = "list_end"
    /\ attribute_type = 3
    /\ number_of_values = 1
    /\ offset = 0
    /\ Len(ItemIdx("vector_attribute")) = 2
    /\ Len(ItemIdx("vector_header")) = 2
    /\ Len(ItemIdx("first_value")) = 0
    /\ Len(PackedReads) = 0
    /\ Len(Events) = 0

-----------------------------------------------------------------------------
(* The return value *)

\* offset of the Frame End Mark: where the Message loop read 0x0000
FrameEndMarkAt == log[LastPeekBefore(Len(log) + 1, "msg_peek")].off

\* C20: a normal return gives the captured length of the whole buffer,
\* wherever the Frame End Mark was found, and no byte after the Frame End
\* Mark has been fetched or shown as a field; a call without a tree fetches
\* nothing, adds nothing and returns the captured length, also on a buffer
\* that is cut short.
C20_ReturnsCapturedLength ==
    /\ pc = "done" => result = tvb_captured_length
    /\ ~tree => /\ log = <<>>
                /\ pc \in {"enter", "return", "done"}
    /\ (tree /\ pc = "done") =>
          \A i \in 1 .. Len(log) :
              log[i].k \in {"get", "val", "uint"} =>
                  log[i].off + log[i].len <= FrameEndMarkAt + 2

====
